---------------------------- MODULE Spec2Model ----------------------------
(***************************************************************************)
(* A model of the certificate generator: the batch engine of               *)
(* generate_certs.py (main, the worker pool, init_worker, get_font,        *)
(* find_font_size, process_batch) and the request handlers of              *)
(* backend/main.py (load_font, get_font_for_text, draw_certificate).       *)
(* main is run without --limit; a font file either loads at every size     *)
(* requested or at none.                                                   *)
(***************************************************************************)
EXTENDS Integers, Sequences, FiniteSets, TLC

(***************************************************************************)
(* Program constants.                                                      *)
(***************************************************************************)
BOX_X == 579
BOX_Y == 611
BOX_W == 840
BOX_H == 199
DEFAULT_FONT_SIZE == 72
CliFloor == 20
CliStep == 4
CliPadding == 20
PrintedErrorCap == 5

(***************************************************************************)
(* Bounds of the model.                                                    *)
(***************************************************************************)
MaxJobs == 2

\* --workers and --batch-size values tried; --font-size values tried: the
\* default, and one that is off the pre-warmed grid 20, 24, 28, ...
WorkerCounts == {1, 2}
BatchSizes == {1, 2}
FontSizeArgs == {DEFAULT_FONT_SIZE, 30}

(***************************************************************************)
(* Names found in the designated field of a record.  csv.DictReader gives  *)
(* None for a field that a short row does not hold.                        *)
(***************************************************************************)
NoneValue == "<None>"
NameEmpty == ""
NameNarrow == "iiiiiiiiiiiiiiiiiiiiiiiiiiiiiiiiiiiiiiiiiiiiiiiiiiiiiiiiiiii"
NameWide == "WWWWWWWWWWWWWWWWWWWWWWWWWWWWWWWWWWWWWWWWWWWWWWWWWWWWWWWWWWWW"
Names == {NameEmpty, NameNarrow, NameWide}
FieldValues == Names \cup {NoneValue}

(***************************************************************************)
(* Fonts.  A font object is what ImageFont.truetype or                     *)
(* ImageFont.load_default returned: its kind, its pixel size, and the      *)
(* identity of the object (the serial of the load that created it).        *)
(***************************************************************************)
Font(kind, size, id) == [kind |-> kind, size |-> size, id |-> id]

\* ImageFont.truetype(path, size): succeeds when the file at path is a
\* loadable font.  fontFile is "" (no path), "good" or "corrupt".
truetypeLoads(fontFile) == fontFile = "good"

(***************************************************************************)
(* The glyph metrics engine, draw.textbbox((0, 0), text, font): the        *)
(* bounding box <<x0, y0, x1, y1>> of the ink.  A glyph of 'i' advances    *)
(* 3/10 of the pixel size and has a left side bearing, a glyph of 'W'      *)
(* advances the full pixel size; the built-in font has one fixed size.     *)
(***************************************************************************)
AdvanceTenths(text) == IF text = NameNarrow THEN 3 ELSE 10

LeftBearing(text, size) == IF text = NameNarrow THEN size \div 12 ELSE 0

textbbox(text, font) ==
  IF Len(text) = 0 THEN <<0, 0, 0, 0>>
  ELSE IF font.kind = "default"
       THEN <<0, 0, 6 * Len(text), 11>>
       ELSE LET x0 == LeftBearing(text, font.size)
                y0 == font.size \div 4
            IN <<x0, y0,
                 x0 + (Len(text) * font.size * AdvanceTenths(text)) \div 10,
                 y0 + (3 * font.size) \div 4>>

(***************************************************************************)
(* The worker's font cache (_worker_font_cache) and its history:           *)
(*   cache  : size -> font object                                          *)
(*   log    : the sizes loaded, in load order (a font's id is its place)   *)
(*   served : the <<size, id>> pairs get_font has returned                 *)
(***************************************************************************)
EmptyFontState == [cache |-> <<>>, log |-> <<>>, served |-> {}]

\* A load of the font file at a size, with the fallback of the bare except.
LoadFont(fs, fontFile, size) ==
  Font(IF truetypeLoads(fontFile) THEN "truetype" ELSE "default",
       size, Len(fs.log) + 1)

Store(fs, size, font) ==
  [fs EXCEPT !.cache = [s \in DOMAIN fs.cache \cup {size} |->
                          IF s = size THEN font ELSE fs.cache[s]],
             !.log = Append(fs.log, size)]

\* get_font without the cache lookup: a load on every call.
get_font_uncached(fs, fontFile, size) ==
  LET font == LoadFont(fs, fontFile, size)
      st == Store(fs, size, font)
  IN [fs |-> [st EXCEPT !.served = @ \cup {<<size, font.id>>}],
      font |-> font, raised |-> FALSE]

\* get_font without the fallback: a failed load propagates.
get_font_nofallback(fs, fontFile, size) ==
  IF size \in DOMAIN fs.cache
  THEN [fs |-> [fs EXCEPT !.served = @ \cup {<<size, fs.cache[size].id>>}],
        font |-> fs.cache[size], raised |-> FALSE]
  ELSE IF truetypeLoads(fontFile)
       THEN get_font_uncached(fs, fontFile, size)
       ELSE [fs |-> fs, font |-> Font("none", size, 0), raised |-> TRUE]

get_font(fs, fontFile, size) ==
  IF size \in DOMAIN fs.cache
  THEN [fs |-> [fs EXCEPT !.served = @ \cup {<<size, fs.cache[size].id>>}],
        font |-> fs.cache[size], raised |-> FALSE]
  ELSE LET font == LoadFont(fs, fontFile, size)
           st == Store(fs, size, font)
       IN [fs |-> [st EXCEPT !.served = @ \cup {<<size, font.id>>}],
           font |-> font, raised |-> FALSE]

\* range(20, max_font_size + 1, 4)
PrewarmSizes(max_font_size) ==
  {s \in CliFloor..max_font_size : (s - CliFloor) % CliStep = 0}

RECURSIVE Prewarm(_, _, _, _)
Prewarm(fs, fontFile, size, max_font_size) ==
  IF size > max_font_size THEN fs
  ELSE Prewarm(Store(fs, size, LoadFont(fs, fontFile, size)),
               fontFile, size + CliStep, max_font_size)

(***************************************************************************)
(* find_font_size: the largest size on the grid max, max - 4, ... >= 20    *)
(* at which the text fits the padded box, else 20.  tried is the sequence  *)
(* of sizes measured.                                                      *)
(***************************************************************************)
\* The width test with its comparison turned around.
FitsWidthReversed(bbox, box_w, box_h, padding) ==
  /\ bbox[3] - bbox[1] >= box_w - padding
  /\ bbox[4] - bbox[2] <= box_h - padding

\* The test accepting a text that fits in one dimension only.
FitsEither(bbox, box_w, box_h, padding) ==
  \/ bbox[3] - bbox[1] <= box_w - padding
  \/ bbox[4] - bbox[2] <= box_h - padding

Fits(bbox, box_w, box_h, padding) ==
  /\ bbox[3] - bbox[1] <= box_w - padding
  /\ bbox[4] - bbox[2] <= box_h - padding

RECURSIVE FindLoop(_, _, _, _, _, _, _)
FindLoop(fs, fontFile, text, size, box_w, box_h, tried) ==
  IF size >= CliFloor
  THEN LET g == get_font(fs, fontFile, size)
       IN IF g.raised
          THEN [fs |-> g.fs, size |-> size, tried |-> Append(tried, size),
                raised |-> TRUE]
          ELSE IF Fits(textbbox(text, g.font), box_w, box_h, CliPadding)
               THEN [fs |-> g.fs, size |-> size,
                     tried |-> Append(tried, size), raised |-> FALSE]
               ELSE FindLoop(g.fs, fontFile, text, size - CliStep, box_w,
                             box_h, Append(tried, size))
  ELSE [fs |-> fs, size |-> CliFloor, tried |-> tried, raised |-> FALSE]

find_font_size(fs, fontFile, text, max_size, box_w, box_h) ==
  FindLoop(fs, fontFile, text, max_size, box_w, box_h, <<>>)

(***************************************************************************)
(* backend/main.py: load_font and get_font_for_text.  The font files the   *)
(* web variant can see: the requested file in the fonts directory          *)
(* ("absent", "corrupt" or "good") and, for each of the fallback paths,    *)
(* whether ImageFont.truetype loads it.  A font's source is 0 for the      *)
(* requested file, i for the i-th fallback path, -1 for the built-in font. *)
(***************************************************************************)
WebFloor == 10
WebStep == 2
WebPadding == 10
WebFallbackPaths == 3

WebFont(kind, size, source) == [kind |-> kind, size |-> size, source |-> source]

RECURSIVE FirstLoading(_, _)
FirstLoading(loads, i) ==
  IF i > Len(loads) THEN 0
  ELSE IF loads[i] THEN i ELSE FirstLoading(loads, i + 1)

load_font(wfs, font_size) ==
  IF wfs.requested = "good" THEN WebFont("truetype", font_size, 0)
  ELSE LET i == FirstLoading(wfs.fallbacks, 1)
       IN IF i > 0 THEN WebFont("truetype", font_size, i)
          ELSE WebFont("default", font_size, -1)

RECURSIVE WebFitLoop(_, _, _, _, _, _)
WebFitLoop(wfs, name, box_w, box_h, font_size, tried) ==
  IF font_size >= WebFloor
  THEN LET font == load_font(wfs, font_size)
       IN IF Fits(textbbox(name, font), box_w, box_h, WebPadding)
          THEN [font |-> font, size |-> font_size,
                tried |-> Append(tried, font_size)]
          ELSE WebFitLoop(wfs, name, box_w, box_h, font_size - WebStep,
                          Append(tried, font_size))
  ELSE [font |-> load_font(wfs, WebFloor), size |-> WebFloor, tried |-> tried]

get_font_for_text(wfs, name, box_w, box_h, max_font_size) ==
  WebFitLoop(wfs, name, box_w, box_h, max_font_size, <<>>)

(***************************************************************************)
(* Images.  An image is the set of inks drawn on the template's pixels;    *)
(* an ink is the drawn text with the rectangle its glyphs cover.  The      *)
(* decoded template has no ink.                                            *)
(***************************************************************************)
NoImage == [decoded |-> FALSE, inks |-> {}]
DecodedTemplate == [decoded |-> TRUE, inks |-> {}]

\* draw.text((x, y), text, font): the ink lands at the draw position plus
\* the bounding box's own origin; a text without glyphs leaves no ink.
\* fits records whether the text was measured to fit the padded box.
DrawText(img, text, size, x, y, bbox, fits) ==
  IF bbox[3] = bbox[1] /\ bbox[4] = bbox[2] THEN img
  ELSE [img EXCEPT !.inks = @ \cup
          {[text |-> text, size |-> size, left |-> x + bbox[1],
            right |-> x + bbox[3], top |-> y + bbox[2],
            bottom |-> y + bbox[4], fits |-> fits]}]

\* The image handed over without a copy: the same object as img.
CopyAliasing(img) == [img |-> img, fresh |-> FALSE]

\* img.copy(): a new image object (fresh) holding the pixels of img.
Copy(img) == [img |-> img, fresh |-> TRUE]

\* The object `original` after ImageDraw has drawn on the object it was
\* copied to: untouched when the copy is an object of its own, the drawn
\* image when the two are one object.
AfterDraw(original, cp, drawn) == IF cp.fresh THEN original ELSE drawn

(***************************************************************************)
(* A worker process: the module globals of generate_certs.py in it.        *)
(***************************************************************************)
NewWorker ==
  [started |-> FALSE, alive |-> FALSE, inits |-> 0, decodes |-> 0,
   template_img |-> NoImage, font_path |-> "", fonts |-> EmptyFontState,
   batches |-> 0]

\* init_worker(template_bytes, font_path, max_font_size), when the template
\* decodes; the decode comes first, so a failed decode leaves nothing set.
init_worker(wk, font_path, max_font_size) ==
  [wk EXCEPT !.inits = @ + 1,
             !.decodes = @ + 1,
             !.template_img = DecodedTemplate,
             !.font_path = font_path,
             !.fonts = Prewarm(@, font_path, CliFloor, max_font_size)]

(***************************************************************************)
(* process_batch.  The state threaded through the loop: the worker, the    *)
(* font_size_cache of this call, the results, and the files written.       *)
(***************************************************************************)
Success == [success |-> TRUE, error |-> "", name |-> ""]
Failure(error, name) == [success |-> FALSE, error |-> error, name |-> name]

\* _worker_template_img.copy() decoding the template bytes again instead.
CopyTemplateByDecoding(wk) ==
  [wk |-> [wk EXCEPT !.decodes = @ + 1], cp |-> Copy(DecodedTemplate),
   raised |-> FALSE]

\* _worker_template_img.copy(): an AttributeError when init_worker has not
\* set the template.
CopyTemplate(wk) ==
  [wk |-> wk, cp |-> Copy(wk.template_img),
   raised |-> ~wk.template_img.decoded]

\* The lookup finding nothing, whatever font_size_cache holds.
CacheNeverHit(size_cache, key) == FALSE

\* cache_key in font_size_cache
CacheHit(size_cache, key) == key \in DOMAIN size_cache

\* One iteration of the loop with its try block; saveOk is whether
\* img.save(output_path, ...) succeeds.  sizes and fitted are the history
\* of the call: the size each job was rendered at (0 for a job that raised
\* before it had one) and the names find_font_size was called with.
ProcessItem(st, item, saveOk) ==
  LET c == CopyTemplate(st.wk)
      key == Len(item.name)
      hit == CacheHit(st.size_cache, key)
      searched == IF hit THEN st.fitted ELSE Append(st.fitted, item.name)
      f == IF hit
           THEN [fs |-> c.wk.fonts, size |-> st.size_cache[key],
                 tried |-> <<>>, raised |-> FALSE]
           ELSE find_font_size(c.wk.fonts, c.wk.font_path, item.name,
                               item.max_font_size, BOX_W, BOX_H)
      cache1 == IF hit \/ f.raised THEN st.size_cache
                ELSE [k \in DOMAIN st.size_cache \cup {key} |->
                        IF k = key THEN f.size ELSE st.size_cache[k]]
      g == get_font(f.fs, c.wk.font_path, f.size)
      bbox == textbbox(item.name, g.font)
      text_w == bbox[3] - bbox[1]
      text_h == bbox[4] - bbox[2]
      text_x == BOX_X + (BOX_W - text_w) \div 2
      text_y == BOX_Y + (BOX_H - text_h) \div 2
      img == DrawText(c.cp.img, item.name, f.size, text_x, text_y, bbox,
                      Fits(bbox, BOX_W, BOX_H, CliPadding))
      drawnOn == [c.wk EXCEPT
                    !.fonts = g.fs,
                    !.template_img = AfterDraw(@, c.cp, img)]
  IN  IF c.raised
      THEN [st EXCEPT !.wk = c.wk,
                      !.sizes = Append(@, 0),
                      !.results = Append(@, Failure("AttributeError", item.name))]
      ELSE IF f.raised
      THEN [st EXCEPT !.wk = [c.wk EXCEPT !.fonts = f.fs],
                      !.sizes = Append(@, 0),
                      !.fitted = searched,
                      !.results = Append(@, Failure("OSError: font", item.name))]
      ELSE IF g.raised
      THEN [st EXCEPT !.wk = [c.wk EXCEPT !.fonts = g.fs],
                      !.size_cache = cache1,
                      !.sizes = Append(@, f.size),
                      !.fitted = searched,
                      !.results = Append(@, Failure("OSError: font", item.name))]
      ELSE IF ~saveOk
      THEN [st EXCEPT !.wk = drawnOn,
                      !.size_cache = cache1,
                      !.sizes = Append(@, f.size),
                      !.fitted = searched,
                      !.results = Append(@, Failure("OSError: save", item.name))]
      ELSE [st EXCEPT !.wk = drawnOn,
                      !.size_cache = cache1,
                      !.sizes = Append(@, f.size),
                      !.fitted = searched,
                      !.results = Append(@, Success),
                      !.written = @ \cup {[path |-> item.path, img |-> img,
                                           font |-> g.font.kind]}]

\* The loop leaving at the first job that raises, the rest unprocessed.
RECURSIVE BatchLoopAborting(_, _, _, _)
BatchLoopAborting(st, batch, saves, k) ==
  IF k > Len(batch) THEN st
  ELSE LET nxt == ProcessItem(st, batch[k], saves[k])
       IN IF nxt.results[Len(nxt.results)].success
          THEN BatchLoopAborting(nxt, batch, saves, k + 1)
          ELSE nxt

RECURSIVE BatchLoop(_, _, _, _)
BatchLoop(st, batch, saves, k) ==
  IF k > Len(batch) THEN st
  ELSE BatchLoop(ProcessItem(st, batch[k], saves[k]), batch, saves, k + 1)

process_batch(wk, batch, saves) ==
  BatchLoop([wk |-> wk, size_cache |-> <<>>, results |-> <<>>,
             written |-> {}, sizes |-> <<>>, fitted |-> <<>>],
            batch, saves, 1)

(***************************************************************************)
(* The font files main can see.  A file is "absent", "corrupt" (it exists  *)
(* and ImageFont.truetype raises on it) or "good".  --font is "none" when  *)
(* not given, else the state of the file it names.  A resolved font has    *)
(* its source: 0 for the --font file, i for the i-th candidate of          *)
(* find_system_font, -1 for no file.                                       *)
(***************************************************************************)
FileStates == {"absent", "corrupt", "good"}
FontArgs == {"none"} \cup FileStates
Systems == {"Windows", "Darwin", "Linux"}

\* The length of the candidates list of the platform.
CandidateCount(system) == IF system = "Linux" THEN 7 ELSE 4

RECURSIVE FirstExisting(_, _)
FirstExisting(cands, i) ==
  IF i > Len(cands) THEN 0
  ELSE IF cands[i] # "absent" THEN i ELSE FirstExisting(cands, i + 1)

find_system_font(cands) ==
  LET i == FirstExisting(cands, 1)
  IN IF i = 0 THEN [source |-> -1, file |-> ""]
     ELSE [source |-> i, file |-> cands[i]]

\* if args.font is None or not os.path.exists(args.font):
\*     args.font = find_system_font()
ResolveFont(arg, cands) ==
  IF arg \in {"none", "absent"} THEN find_system_font(cands)
  ELSE [source |-> 0, file |-> arg]

(***************************************************************************)
(* The state of a run of generate_certs.py.                                *)
(***************************************************************************)
VARIABLES
  pc,              \* main's position
  args,            \* the parsed command line
  out,             \* the error lines main has printed
  fontFile,        \* args.font after resolution: "", "good" or "corrupt"
  rows,            \* the designated field's value in each CSV record
  template_bytes,  \* "image" (decodable) or "garbage", once read
  batches,         \* the batches of tasks
  futures,         \* per batch: its future's state and results, and the
                   \* history of the process_batch call that ran it
  completed,       \* main's counters
  errors,
  printed,         \* the per-job errors printed
  workers,         \* the pool's worker processes
  broken,          \* the pool is broken (BrokenProcessPool)
  files,           \* the images saved in the output directory
  summary,         \* the final COMPLETED / ERRORS lines
  probe,           \* the inputs and results of a call made on its own
  response         \* the web variant's answer to a request

vars == <<pc, args, out, fontFile, rows, template_bytes, batches, futures,
          completed, errors, printed, workers, broken, files, summary,
          probe, response>>

ArgsSet ==
  [font_size : FontSizeArgs, workers : WorkerCounts, batch_size : BatchSizes]

Init ==
  /\ pc = "start"
  /\ args = <<>>
  /\ out = <<>>
  /\ fontFile = ""
  /\ rows = <<>>
  /\ template_bytes = "unread"
  /\ batches = <<>>
  /\ futures = <<>>
  /\ completed = 0
  /\ errors = 0
  /\ printed = 0
  /\ workers = <<>>
  /\ broken = FALSE
  /\ files = {}
  /\ summary = <<>>
  /\ probe = <<>>
  /\ response = <<>>

Min(a, b) == IF a < b THEN a ELSE b

\* batches = [tasks[i:i + batch_size] for i in range(0, len(tasks), batch_size)]
SplitBatches(tasks, batch_size) ==
  [i \in 1..((Len(tasks) + batch_size - 1) \div batch_size) |->
     SubSeq(tasks, (i - 1) * batch_size + 1, Min(i * batch_size, Len(tasks)))]

\* tasks.append((name, output_path, args.font_size)) for every row
Tasks(rws, font_size) ==
  [i \in 1..Len(rws) |->
     [name |-> rws[i], path |-> i, max_font_size |-> font_size]]

\* main, lines 180-191: the command line.
MainParseArgs ==
  /\ pc = "start"
  /\ \E a \in ArgsSet : args' = a
  /\ pc' = "check"
  /\ UNCHANGED <<out, fontFile, rows, template_bytes, batches, futures,
                 completed, errors, printed, workers, broken, files, summary,
                 probe, response>>

\* main, lines 193-198: the template and the CSV must exist.
MainCheckFiles ==
  /\ pc = "check"
  /\ \E templateExists \in BOOLEAN, csvExists \in BOOLEAN :
       IF ~templateExists
       THEN /\ out' = Append(out, "ERROR: Template not found")
            /\ pc' = "exit"
       ELSE IF ~csvExists
       THEN /\ out' = Append(out, "ERROR: CSV not found")
            /\ pc' = "exit"
       ELSE /\ out' = out
            /\ pc' = "font"
  /\ UNCHANGED <<args, fontFile, rows, template_bytes, batches, futures,
                 completed, errors, printed, workers, broken, files, summary,
                 probe, response>>

\* main, lines 201-204: args.font is kept when the file exists, else the
\* first existing system font, else "".  An existing file may not load.
MainFindFont ==
  /\ pc = "font"
  /\ \E system \in Systems, arg \in FontArgs :
       \E cands \in [1..CandidateCount(system) -> FileStates] :
         fontFile' = ResolveFont(arg, cands).file
  /\ pc' = "csv"
  /\ UNCHANGED <<args, out, rows, template_bytes, batches, futures,
                 completed, errors, printed, workers, broken, files, summary,
                 probe, response>>

\* main, lines 206-217: read the records; rows[0] of an empty CSV raises
\* IndexError; a missing field prints an error and exits.
MainReadCsv ==
  /\ pc = "csv"
  /\ \E n \in 0..MaxJobs, hasField \in BOOLEAN :
       \E rws \in [1..n -> IF hasField THEN FieldValues ELSE {NoneValue}] :
         /\ rows' = rws
         /\ IF n = 0
            THEN /\ out' = Append(out, "Traceback: IndexError")
                 /\ pc' = "crash"
            ELSE IF ~hasField
            THEN /\ out' = Append(out, "ERROR: Field not found")
                 /\ pc' = "exit"
            ELSE /\ out' = out
                 /\ pc' = "prepare"
  /\ UNCHANGED <<args, fontFile, template_bytes, batches, futures,
                 completed, errors, printed, workers, broken, files, summary,
                 probe, response>>

\* main, lines 219-240: read the template bytes, build one task per row
\* (iterating over a None name raises TypeError) and split into batches.
MainPrepare ==
  /\ pc = "prepare"
  /\ \E bytes \in {"image", "garbage"} : template_bytes' = bytes
  /\ IF \E i \in 1..Len(rows) : rows[i] = NoneValue
     THEN /\ out' = Append(out, "Traceback: TypeError")
          /\ pc' = "crash"
          /\ batches' = batches
     ELSE /\ out' = out
          /\ pc' = "pool"
          /\ batches' = SplitBatches(Tasks(rows, args.font_size),
                                     args.batch_size)
  /\ UNCHANGED <<args, fontFile, rows, futures, completed, errors, printed,
                 workers, broken, files, summary,
                 probe, response>>

\* main, lines 252-259: create the pool and submit every batch.
MainSubmit ==
  /\ pc = "pool"
  /\ workers' = [w \in 1..args.workers |-> NewWorker]
  /\ futures' = [b \in 1..Len(batches) |->
                   [state |-> "pending", results |-> <<>>,
                    collected |-> FALSE, sizes |-> <<>>, fitted |-> <<>>]]
  /\ pc' = "collect"
  /\ UNCHANGED <<args, out, fontFile, rows, template_bytes, batches, completed,
                 errors, printed, broken, files, summary,
                 probe, response>>

(***************************************************************************)
(* The pool (concurrent.futures.ProcessPoolExecutor with an initializer):  *)
(* a worker process runs the initializer once when it starts and then      *)
(* takes batches from the call queue in submission order; a worker that    *)
(* dies, or whose initializer raises, breaks the pool, and every future    *)
(* not yet done raises BrokenProcessPool.                                  *)
(***************************************************************************)
Pending == {b \in DOMAIN futures : futures[b].state = "pending"}

BreakPool(futs) ==
  [b \in DOMAIN futs |->
     IF futs[b].state = "pending" THEN [futs[b] EXCEPT !.state = "failed"]
     ELSE futs[b]]

\* A worker process starts and runs init_worker; an undecodable template
\* makes Image.open raise in it.
WorkerStart(w) ==
  /\ pc = "collect"
  /\ ~broken
  /\ ~workers[w].started
  /\ IF template_bytes = "image"
     THEN /\ workers' = [workers EXCEPT ![w] =
                 [init_worker(@, fontFile, args.font_size)
                    EXCEPT !.started = TRUE, !.alive = TRUE]]
          /\ UNCHANGED <<futures, broken>>
     ELSE /\ workers' = [workers EXCEPT ![w] =
                 [@ EXCEPT !.started = TRUE, !.inits = @ + 1,
                           !.decodes = @ + 1]]
          /\ broken' = TRUE
          /\ futures' = BreakPool(futures)
  /\ UNCHANGED <<pc, args, out, fontFile, rows, template_bytes, batches,
                 completed, errors, printed, files, summary,
                 probe, response>>

\* A worker takes the next batch and runs process_batch on it; saves is the
\* outcome of each job's img.save.
WorkerRun(w) ==
  /\ pc = "collect"
  /\ ~broken
  /\ workers[w].alive
  /\ Pending # {}
  /\ LET b == CHOOSE x \in Pending : \A y \in Pending : x <= y
     IN \E saves \in [1..Len(batches[b]) -> BOOLEAN] :
          LET r == process_batch(workers[w], batches[b], saves)
          IN /\ workers' = [workers EXCEPT ![w] =
                               [r.wk EXCEPT !.batches = @ + 1]]
             /\ futures' = [futures EXCEPT ![b] =
                               [@ EXCEPT !.state = "done",
                                         !.results = r.results,
                                         !.sizes = r.sizes,
                                         !.fitted = r.fitted]]
             /\ files' = files \cup r.written
  /\ UNCHANGED <<pc, args, out, fontFile, rows, template_bytes, batches,
                 completed, errors, printed, broken, summary,
                 probe, response>>

\* A worker process dies abruptly (killed, out of memory).
WorkerKilled(w) ==
  /\ pc = "collect"
  /\ ~broken
  /\ workers[w].alive
  /\ Pending # {}
  /\ workers' = [workers EXCEPT ![w] = [@ EXCEPT !.alive = FALSE]]
  /\ broken' = TRUE
  /\ futures' = BreakPool(futures)
  /\ UNCHANGED <<pc, args, out, fontFile, rows, template_bytes, batches,
                 completed, errors, printed, files, summary,
                 probe, response>>

(***************************************************************************)
(* main, lines 261-273: the body of the as_completed loop for one future.  *)
(***************************************************************************)
FailedIn(results) == Cardinality({i \in DOMAIN results : ~results[i].success})

\* The except branch counting the batch as one error and no completion.
AggregateMiscounting(c, fut, batch_size) ==
  IF fut.state = "done"
  THEN [completed |-> c.completed + Len(fut.results),
        errors |-> c.errors + FailedIn(fut.results),
        printed |-> c.printed]
  ELSE [completed |-> c.completed, errors |-> c.errors + 1,
        printed |-> c.printed]

Aggregate(c, fut, batch_size) ==
  IF fut.state = "done"
  THEN LET nf == FailedIn(fut.results)
           room == IF c.errors >= PrintedErrorCap THEN 0
                   ELSE PrintedErrorCap - c.errors
       IN [completed |-> c.completed + Len(fut.results),
           errors |-> c.errors + nf,
           printed |-> c.printed + Min(nf, room)]
  ELSE [completed |-> c.completed + batch_size,
        errors |-> c.errors + batch_size,
        printed |-> c.printed]

MainCollect(b) ==
  /\ pc = "collect"
  /\ futures[b].state \in {"done", "failed"}
  /\ ~futures[b].collected
  /\ LET c == Aggregate([completed |-> completed, errors |-> errors,
                         printed |-> printed], futures[b], Len(batches[b]))
     IN /\ completed' = c.completed
        /\ errors' = c.errors
        /\ printed' = c.printed
  /\ futures' = [futures EXCEPT ![b] = [@ EXCEPT !.collected = TRUE]]
  /\ pc' = IF \A x \in DOMAIN futures : x = b \/ futures[x].collected
           THEN "summary" ELSE "collect"
  /\ UNCHANGED <<args, out, fontFile, rows, template_bytes, batches, workers,
                 broken, files, summary,
                 probe, response>>

\* main, lines 281-290.
MainSummary ==
  /\ pc = "summary"
  /\ summary' = <<[completed |-> Len(rows) - errors, errors |-> errors]>>
  /\ pc' = "done"
  /\ UNCHANGED <<args, out, fontFile, rows, template_bytes, batches, futures,
                 completed, errors, printed, workers, broken, files,
                 probe, response>>

(***************************************************************************)
(* backend/main.py: draw_certificate and the two request handlers.  A      *)
(* request is handled in one step; the model runs either generate_certs.py *)
(* or one request to the web variant.                                      *)
(***************************************************************************)
NameBlank == "   "
WebFieldValues == FieldValues \cup {NameBlank}

\* str.strip() on the names of the model.
Strip(name) == IF name = NameBlank THEN "" ELSE name

\* <<x, y, w, h>>
WebBoxes == {<<BOX_X, BOX_Y, BOX_W, BOX_H>>, <<0, 0, 50, 50>>}
WebFontSizes == {60, 30}
WebFontFiles ==
  [requested : FileStates, fallbacks : [1..WebFallbackPaths -> BOOLEAN]]

draw_certificate(template, name, box, max_font_size, wfs) ==
  LET cp == Copy(template)
      fit == get_font_for_text(wfs, name, box[3], box[4], max_font_size)
      bbox == textbbox(name, fit.font)
      text_w == bbox[3] - bbox[1]
      text_h == bbox[4] - bbox[2]
      text_x == (box[1] + (box[3] - text_w) \div 2) - bbox[1]
      text_y == (box[2] + box[4] - text_h - 5) - bbox[2]
      img == DrawText(cp.img, name, fit.size, text_x, text_y, bbox,
                      Fits(bbox, box[3], box[4], WebPadding))
  IN [template |-> AfterDraw(template, cp, img), img |-> img,
      font |-> fit.font]

\* The loop of generate_certificates over the rows; None.strip() raises
\* AttributeError, which nothing catches.
RECURSIVE WebRows(_, _, _, _, _, _)
WebRows(st, rws, k, box, font_size, wfs) ==
  IF k > Len(rws) \/ st.raised THEN st
  ELSE IF rws[k] = NoneValue
       THEN [st EXCEPT !.raised = TRUE]
       ELSE LET name == Strip(rws[k])
            IN IF name = ""
               THEN WebRows(st, rws, k + 1, box, font_size, wfs)
               ELSE LET d == draw_certificate(st.template, name, box,
                                              font_size, wfs)
                    IN WebRows([st EXCEPT
                                  !.template = d.template,
                                  !.certs = Append(@, [name |-> name,
                                                       img |-> d.img,
                                                       font |-> d.font])],
                               rws, k + 1, box, font_size, wfs)

Answer(status, detail, certs, template) ==
  [status |-> status, detail |-> detail, generated_count |-> Len(certs),
   certs |-> certs, template |-> template]

\* POST /generate
WebGenerate ==
  /\ pc = "start"
  /\ pc' = "web"
  /\ \E isImage \in BOOLEAN, decodes \in BOOLEAN, csvParses \in BOOLEAN :
       IF ~isImage
       THEN response' = Answer(400, "Template must be an image file", <<>>,
                               NoImage)
       ELSE IF ~decodes
       THEN response' = Answer(400, "Failed to load template image", <<>>,
                               NoImage)
       ELSE IF ~csvParses
       THEN response' = Answer(400, "Failed to parse CSV", <<>>,
                               DecodedTemplate)
       ELSE \E n \in 0..MaxJobs, hasColumn \in BOOLEAN :
         \E rws \in [1..n -> IF hasColumn THEN WebFieldValues
                             ELSE {NoneValue}] :
           IF n = 0
           THEN response' = Answer(400, "CSV file is empty", <<>>,
                                   DecodedTemplate)
           ELSE IF ~hasColumn
           THEN response' = Answer(400, "Column not found in CSV", <<>>,
                                   DecodedTemplate)
           ELSE \E box \in WebBoxes, font_size \in WebFontSizes,
                   wfs \in WebFontFiles :
             LET st == WebRows([template |-> DecodedTemplate, certs |-> <<>>,
                                raised |-> FALSE], rws, 1, box, font_size,
                               wfs)
             IN response' =
                  IF st.raised
                  THEN Answer(500, "AttributeError", <<>>, st.template)
                  ELSE IF Len(st.certs) = 0
                  THEN Answer(400, "No valid names found in CSV", <<>>,
                              st.template)
                  ELSE Answer(200, "", st.certs, st.template)
  /\ UNCHANGED <<args, out, fontFile, rows, template_bytes, batches, futures,
                 completed, errors, printed, workers, broken, files, summary,
                 probe>>

\* POST /preview
WebPreview ==
  /\ pc = "start"
  /\ pc' = "web"
  /\ \E decodes \in BOOLEAN :
       IF ~decodes
       THEN response' = Answer(400, "Failed to load template image", <<>>,
                               NoImage)
       ELSE \E name \in Names \cup {NameBlank}, box \in WebBoxes,
               font_size \in WebFontSizes, wfs \in WebFontFiles :
         LET d == draw_certificate(DecodedTemplate, name, box, font_size, wfs)
         IN response' = Answer(200, "preview",
                               <<[name |-> name, img |-> d.img,
                                  font |-> d.font]>>, d.template)
  /\ UNCHANGED <<args, out, fontFile, rows, template_bytes, batches, futures,
                 completed, errors, printed, workers, broken, files, summary,
                 probe>>

Next ==
  \/ MainParseArgs
  \/ MainCheckFiles
  \/ MainFindFont
  \/ MainReadCsv
  \/ MainPrepare
  \/ MainSubmit
  \/ \E w \in DOMAIN workers : WorkerStart(w)
  \/ \E w \in DOMAIN workers : WorkerRun(w)
  \/ \E w \in DOMAIN workers : WorkerKilled(w)
  \/ \E b \in DOMAIN futures : MainCollect(b)
  \/ MainSummary
  \/ WebGenerate
  \/ WebPreview

Spec == Init /\ [][Next]_vars

(***************************************************************************)
(* Helpers of the properties.                                              *)
(***************************************************************************)
Collected == {b \in DOMAIN futures : futures[b].collected}

RECURSIVE SumOver(_, _)
SumOver(S, f) ==
  IF S = {} THEN 0
  ELSE LET x == CHOOSE y \in S : TRUE IN f[x] + SumOver(S \ {x}, f)

\* What each batch contributes to the counters once its future is collected.
JobsOf == [b \in DOMAIN futures |-> Len(batches[b])]
FailuresOf ==
  [b \in DOMAIN futures |->
     IF futures[b].state = "done" THEN FailedIn(futures[b].results)
     ELSE Len(batches[b])]

Range(seq) == {seq[i] : i \in DOMAIN seq}

(***************************************************************************)
(* C1  Batch completeness: while main collects, the counters are exactly   *)
(* the jobs and the failures of the futures collected so far (a future     *)
(* that raised counts all of its jobs as failures); when the run ends      *)
(* every future has been collected once, completed equals the number of    *)
(* submitted jobs N, and successes (N - errors) plus failures make N with  *)
(* neither negative.                                                       *)
(***************************************************************************)
C1_BatchCompleteness ==
  /\ pc \in {"collect", "summary", "done"} =>
       /\ completed = SumOver(Collected, JobsOf)
       /\ errors = SumOver(Collected, FailuresOf)
       /\ \A b \in DOMAIN futures :
            futures[b].state = "done" =>
              Len(futures[b].results) = Len(batches[b])
  /\ pc \in {"summary", "done"} =>
       /\ Collected = DOMAIN futures
       /\ completed = Len(rows)
       /\ errors >= 0 /\ errors <= Len(rows)
  /\ pc = "done" =>
       /\ summary[1].completed + summary[1].errors = Len(rows)
       /\ summary[1].completed >= 0
       /\ summary[1].errors = SumOver(DOMAIN futures, FailuresOf)

\* The run has ended with one batch returned and another whose future raised.
C1_Witness ==
  /\ pc = "done"
  /\ \E b \in DOMAIN futures : futures[b].state = "failed"
  /\ \E b \in DOMAIN futures :
       futures[b].state = "done" /\ futures[b].results[1].success
  /\ errors = 1 /\ completed = 2

(***************************************************************************)
(* C2  Per-job failure isolation: a batch that returned holds one result   *)
(* per job, in job order; a job whose rendering or saving raised has       *)
(* success = FALSE with the error text and the job's name, a job that did  *)
(* not raise has success = TRUE and its image saved, whatever happened to  *)
(* the jobs before it; and a worker that ran a batch is still alive unless *)
(* the pool broke.                                                         *)
(***************************************************************************)
C2_FailureIsolation ==
  /\ \A b \in DOMAIN futures :
       futures[b].state = "done" =>
         /\ Len(futures[b].results) = Len(batches[b])
         /\ \A i \in DOMAIN futures[b].results :
              LET r == futures[b].results[i]
                  job == batches[b][i]
              IN IF r.success
                 THEN \E f \in files : f.path = job.path
                 ELSE /\ r.error # ""
                      /\ r.name = job.name
                      /\ ~\E f \in files : f.path = job.path
  /\ \A w \in DOMAIN workers :
       workers[w].batches > 0 /\ ~broken => workers[w].alive

\* A batch whose first job failed and whose second job succeeded.
C2_Witness ==
  \E b \in DOMAIN futures :
    /\ futures[b].state = "done"
    /\ Len(futures[b].results) = 2
    /\ ~futures[b].results[1].success
    /\ futures[b].results[1].error = "OSError: save"
    /\ futures[b].results[2].success

FatalInput ==
  \/ template_bytes = "garbage"
  \/ "Traceback: IndexError" \in Range(out)
  \/ "ERROR: Field not found" \in Range(out)

(***************************************************************************)
(* C3  Fatal input errors abort before dispatch: with an undecodable       *)
(* template, an empty record source or an absent field, no batch is        *)
(* submitted and no job is counted.                                        *)
(***************************************************************************)
C3_FatalAbortsBeforeDispatch ==
  FatalInput =>
    /\ futures = <<>>
    /\ completed = 0
    /\ errors = 0
    /\ files = {}

(***************************************************************************)
(* C4  Worker initialisation: a worker process runs init_worker once, when *)
(* it starts; it has run it, and decoded the template, before it processes *)
(* a batch; and the template is decoded once per worker however many       *)
(* batches the worker runs.                                                *)
(***************************************************************************)
C4_WorkerInitialisedOnce ==
  \A w \in DOMAIN workers :
    /\ workers[w].inits = (IF workers[w].started THEN 1 ELSE 0)
    /\ workers[w].decodes = workers[w].inits
    /\ workers[w].batches > 0 =>
         /\ workers[w].inits = 1
         /\ workers[w].template_img = DecodedTemplate

\* One worker has run two batches.
C4_Witness ==
  \E w \in DOMAIN workers :
    /\ workers[w].batches = 2
    /\ workers[w].decodes = 1
    /\ \E v \in DOMAIN workers : v # w /\ ~workers[v].started

Abs(x) == IF x < 0 THEN -x ELSE x

Centered(ink, box_x, box_w) ==
  Abs((ink.left + ink.right) - (2 * box_x + box_w)) <= 2

(***************************************************************************)
(* C7  Centering: the ink of every text that fits the box has its          *)
(* horizontal midpoint within 1 pixel of the box's midpoint.               *)
(***************************************************************************)
C7_Centering ==
  \A f \in files : \A ink \in f.img.inks :
    ink.fits => Centered(ink, BOX_X, BOX_W)

DistinctSizes == UNION {Range(workers[w].fonts.log) : w \in DOMAIN workers}

LoadsOf == [w \in DOMAIN workers |-> Len(workers[w].fonts.log)]

(***************************************************************************)
(* C8  FontCache memoization: in every worker each size has been loaded    *)
(* at most once; the cache holds exactly the sizes loaded, each entry      *)
(* being the object of that one load (never dropped, never replaced);      *)
(* every get_font call returned the cached object of its size; so the      *)
(* loads of a run are at most W times the number of distinct sizes.        *)
(***************************************************************************)
C8_FontCacheMemoized ==
  /\ \A w \in DOMAIN workers :
       LET fs == workers[w].fonts
       IN /\ \A i, j \in DOMAIN fs.log : fs.log[i] = fs.log[j] => i = j
          /\ DOMAIN fs.cache = Range(fs.log)
          /\ \A s \in DOMAIN fs.cache :
               /\ fs.cache[s].size = s
               /\ fs.log[fs.cache[s].id] = s
          /\ \A p \in fs.served :
               p[1] \in DOMAIN fs.cache /\ fs.cache[p[1]].id = p[2]
  /\ SumOver(DOMAIN workers, LoadsOf)
       <= Cardinality(DOMAIN workers) * Cardinality(DistinctSizes)

\* A worker has run two batches and holds a size loaded on demand that
\* get_font also served from the cache.
C8_Witness ==
  \E w \in DOMAIN workers :
    /\ workers[w].batches = 2
    /\ \E s \in DOMAIN workers[w].fonts.cache :
         /\ s \notin PrewarmSizes(args.font_size)
         /\ <<s, workers[w].fonts.cache[s].id>> \in workers[w].fonts.served
    /\ Len(workers[w].fonts.log) < 2 * Cardinality(DistinctSizes)

(***************************************************************************)
(* C10  Fallback termination: no font lookup raises.  In the batch         *)
(* variant every cached or served font is a loaded font or the built-in    *)
(* one, the only failed results are failed saves, and an image saved when  *)
(* the font file does not load was rendered with the built-in font by a    *)
(* job whose result is a success.  In the web variant no answer is an      *)
(* error caused by a font, and a certificate is rendered with the built-in *)
(* font exactly when neither the requested file nor a fallback path loads. *)
(***************************************************************************)
C10_FallbackNeverFails ==
  /\ \A w \in DOMAIN workers :
       \A s \in DOMAIN workers[w].fonts.cache :
         workers[w].fonts.cache[s].kind =
           (IF fontFile = "good" THEN "truetype" ELSE "default")
  /\ \A b \in DOMAIN futures :
       \A i \in DOMAIN futures[b].results :
         LET r == futures[b].results[i]
         IN /\ ~r.success => r.error = "OSError: save"
            /\ r.success =>
                 \E f \in files :
                   /\ f.path = batches[b][i].path
                   /\ f.font = (IF fontFile = "good" THEN "truetype"
                                ELSE "default")
  /\ response # <<>> =>
       /\ response.status \in {200, 400, 500}
       /\ response.status = 500 => response.detail = "AttributeError"
       /\ \A i \in DOMAIN response.certs :
            LET f == response.certs[i].font
            IN /\ f.kind \in {"truetype", "default"}
               /\ f.kind = "default" <=> f.source = -1

\* A job rendered with the built-in font, loaded on demand at a size that was
\* not pre-warmed, has a success result.
C10_Witness ==
  /\ fontFile # "good"
  /\ \E b \in DOMAIN futures :
       /\ futures[b].state = "done"
       /\ futures[b].results[1].success
       /\ \E f \in files : f.path = batches[b][1].path /\ f.font = "default"
  /\ \E w \in DOMAIN workers :
       \E p \in workers[w].fonts.served :
         /\ p[1] \notin PrewarmSizes(args.font_size)
         /\ workers[w].fonts.cache[p[1]].kind = "default"

\* The records of the run whose designated field is missing or empty.
EmptyRecords == {i \in DOMAIN rows : rows[i] \in {NameEmpty, NoneValue}}

\* The jobs main created, over all batches.
JobsCreated == UNION {Range(batches[b]) : b \in DOMAIN batches}

(***************************************************************************)
(* C11  Empty-text records are skipped.  In the batch run a record whose   *)
(* designated field is missing or empty gets no job and no output image,   *)
(* and the run neither stops on it nor counts it: it ends with as many     *)
(* jobs completed as there are other records.  In the web variant the      *)
(* generate endpoint makes no certificate for a name that is empty after   *)
(* stripping, and a record without the field does not make it fail.        *)
(***************************************************************************)
C11_EmptyRecordsSkipped ==
  /\ \A i \in EmptyRecords :
       /\ ~\E job \in JobsCreated : job.path = i
       /\ ~\E f \in files : f.path = i
  /\ "Traceback: TypeError" \notin Range(out)
  /\ pc \in {"summary", "done"} =>
       completed = Len(rows) - Cardinality(EmptyRecords)
  /\ response # <<>> /\ response.detail # "preview" =>
       /\ \A i \in DOMAIN response.certs : Strip(response.certs[i].name) # ""
       /\ response.status # 500

\* The image holds the text and nothing else: one ink for a text with
\* glyphs, none for the empty text.
OnlyInkOf(img, text) ==
  /\ \A ink \in img.inks : ink.text = text
  /\ Cardinality(img.inks) = (IF text = "" THEN 0 ELSE 1)

(***************************************************************************)
(* C12  Template immutability: the decoded template a worker holds has no  *)
(* ink on it after any number of jobs and batches, whether the jobs        *)
(* succeeded or failed, and every image saved holds the text of its own    *)
(* job and nothing of another job; in the web variant the decoded template *)
(* is as decoded when the request is answered, and every certificate holds *)
(* its own name only.                                                      *)
(***************************************************************************)
C12_TemplateImmutable ==
  /\ \A w \in DOMAIN workers :
       /\ workers[w].template_img \in {NoImage, DecodedTemplate}
       /\ workers[w].batches > 0 => workers[w].template_img = DecodedTemplate
  /\ \A f \in files : OnlyInkOf(f.img, rows[f.path])
  /\ response # <<>> =>
       /\ response.template \in {NoImage, DecodedTemplate}
       /\ \A i \in DOMAIN response.certs :
            OnlyInkOf(response.certs[i].img, response.certs[i].name)

\* A worker has run a batch of two jobs with different texts: the first was
\* drawn and failed at the save, the second was saved.
C12_Witness ==
  \E w \in DOMAIN workers, b \in DOMAIN futures :
    /\ workers[w].batches = 1
    /\ workers[w].template_img = DecodedTemplate
    /\ futures[b].state = "done"
    /\ Len(batches[b]) = 2
    /\ batches[b][1].name = NameWide
    /\ batches[b][2].name = NameNarrow
    /\ futures[b].results[1].error = "OSError: save"
    /\ futures[b].results[2].success
    /\ \E f \in files : f.path = batches[b][2].path /\ f.img.inks # {}

\* The size find_font_size gives a name in a worker of this run.
OwnFit(name) ==
  find_font_size(init_worker(NewWorker, fontFile, args.font_size).fonts,
                 fontFile, name, args.font_size, BOX_W, BOX_H).size

\* The first job of the batch whose text is as long as that of job k.
FirstOfLength(batch, k) ==
  batch[CHOOSE j \in 1..k :
          /\ Len(batch[j].name) = Len(batch[k].name)
          /\ \A i \in 1..(j - 1) : Len(batch[i].name) # Len(batch[k].name)]

\* The names of the jobs that are the first of their length, in job order.
RECURSIVE FirstNames(_, _)
FirstNames(batch, k) ==
  IF k > Len(batch) THEN <<>>
  ELSE (IF \E i \in 1..(k - 1) : Len(batch[i].name) = Len(batch[k].name)
        THEN <<>> ELSE <<batch[k].name>>) \o FirstNames(batch, k + 1)

(***************************************************************************)
(* C13  Size cache by text length: a process_batch call runs the fit       *)
(* search for the first job of each text length in its batch and for no    *)
(* other job, so at most once per length; every job is rendered at the     *)
(* size fitted for the first job of its length in the same batch, which is *)
(* the size on the image saved for it; and since the searches of a call    *)
(* depend on its own batch only, nothing is carried over from another      *)
(* batch or another worker.                                                *)
(***************************************************************************)
C13_SizeCacheByLength ==
  \A b \in DOMAIN futures :
    futures[b].state = "done" =>
      LET batch == batches[b]
          sizes == futures[b].sizes
          fitted == futures[b].fitted
      IN /\ fitted = FirstNames(batch, 1)
         /\ \A i, j \in DOMAIN fitted :
              Len(fitted[i]) = Len(fitted[j]) => i = j
         /\ Len(sizes) = Len(batch)
         /\ \A k \in DOMAIN batch :
              /\ sizes[k] = OwnFit(FirstOfLength(batch, k).name)
              /\ \A f \in files :
                   f.path = batch[k].path =>
                     \A ink \in f.img.inks : ink.size = sizes[k]

\* A batch of two names of one length that fit at different sizes: the
\* search ran for the first only, and the second was saved at the size of
\* the first, which is not the size of its own fit.
C13_Witness ==
  \E b \in DOMAIN futures :
    /\ futures[b].state = "done"
    /\ Len(batches[b]) = 2
    /\ batches[b][1].name = NameNarrow
    /\ batches[b][2].name = NameWide
    /\ futures[b].fitted = <<NameNarrow>>
    /\ futures[b].sizes[2] = futures[b].sizes[1]
    /\ futures[b].sizes[2] # OwnFit(NameWide)
    /\ \E f \in files :
         /\ f.path = batches[b][2].path
         /\ \E ink \in f.img.inks : ink.size = futures[b].sizes[2]

(***************************************************************************)
(* The auto-fit on its own: a specification that draws a text, a size      *)
(* ceiling, a font file and two boxes, and applies find_font_size (in a    *)
(* freshly initialised worker) or get_font_for_text to both boxes.         *)
(***************************************************************************)
NoRun ==
  /\ pc = "probe"
  /\ args = [font_size |-> DEFAULT_FONT_SIZE, workers |-> 1, batch_size |-> 1]
  /\ out = <<>>
  /\ fontFile = ""
  /\ rows = <<>>
  /\ template_bytes = "unread"
  /\ batches = <<>>
  /\ futures = <<>>
  /\ completed = 0
  /\ errors = 0
  /\ printed = 0
  /\ workers = <<>>
  /\ broken = FALSE
  /\ files = {}
  /\ summary = <<>>
  /\ response = <<>>

runVars == <<pc, args, out, fontFile, rows, template_bytes, batches, futures,
             completed, errors, printed, workers, broken, files, summary,
             response>>

\* <<width, height>>: too small for any size, the boxes of the spec's
\* scenarios, the batch variant's box, and a box whose height binds.
FitBoxes ==
  {<<50, 50>>, <<200, 100>>, <<400, 100>>, <<BOX_W, BOX_H>>, <<2000, 30>>}
FitMaxSizes == {8, 16, 30, DEFAULT_FONT_SIZE}

InitFit ==
  /\ NoRun
  /\ probe \in [stage : {"input"}, text : Names, max_size : FitMaxSizes,
                fontFile : {"good", ""}, box1 : FitBoxes, box2 : FitBoxes,
                r1 : {<<>>}, r2 : {<<>>}]

CliFit(p, box) ==
  LET r == find_font_size(
             init_worker(NewWorker, p.fontFile, p.max_size).fonts,
             p.fontFile, p.text, p.max_size, box[1], box[2])
  IN [size |-> r.size, tried |-> r.tried, raised |-> r.raised]

WebFiles(file) ==
  [requested |-> IF file = "good" THEN "good" ELSE "absent",
   fallbacks |-> <<FALSE, FALSE, FALSE>>]

WebFit(p, box) ==
  LET r == get_font_for_text(WebFiles(p.fontFile), p.text, box[1], box[2],
                             p.max_size)
  IN [size |-> r.size, tried |-> r.tried, raised |-> FALSE]

ApplyFindFontSize ==
  /\ probe.stage = "input"
  /\ probe' = [probe EXCEPT !.stage = "cli", !.r1 = CliFit(probe, probe.box1),
                            !.r2 = CliFit(probe, probe.box2)]
  /\ UNCHANGED runVars

ApplyGetFontForText ==
  /\ probe.stage = "input"
  /\ probe' = [probe EXCEPT !.stage = "web", !.r1 = WebFit(probe, probe.box1),
                            !.r2 = WebFit(probe, probe.box2)]
  /\ UNCHANGED runVars

NextFit == ApplyFindFontSize \/ ApplyGetFontForText

SpecFit == InitFit /\ [][NextFit]_vars

Grid(max_size, floor, step) ==
  {s \in floor..max_size : (max_size - s) % step = 0}

MeasuredAt(p, s) ==
  textbbox(p.text, [kind |-> IF p.fontFile = "good" THEN "truetype"
                             ELSE "default", size |-> s])

FittingSizes(p, box, floor, step, padding) ==
  {s \in Grid(p.max_size, floor, step) :
     LET bb == MeasuredAt(p, s)
     IN /\ bb[3] - bb[1] <= box[1] - padding
        /\ bb[4] - bb[2] <= box[2] - padding}

FitAsSpecified(p, box, r, floor, step, padding) ==
  LET fitting == FittingSizes(p, box, floor, step, padding)
      last == IF fitting = {} THEN floor
              ELSE CHOOSE s \in fitting : \A t \in fitting : t <= s
  IN /\ ~r.raised
     /\ r.size = last
     /\ Range(r.tried) = {s \in Grid(p.max_size, floor, step) : s >= last}
     /\ \A i \in DOMAIN r.tried :
          r.tried[i] = p.max_size - (i - 1) * step

(***************************************************************************)
(* C5  Auto-fit result: the sizes tried are max, max - step, ... in that   *)
(* order, all >= floor; the result is the largest of them at which the     *)
(* measured width <= box width - padding and the measured height <= box    *)
(* height - padding, and the search stops there; when none fits (or none   *)
(* is >= floor) every one of them was tried and the result is the floor.   *)
(* Step 4, floor 20, padding 20 in find_font_size; step 2, floor 10,       *)
(* padding 10 in get_font_for_text.                                        *)
(***************************************************************************)
C5_AutoFitResult ==
  /\ probe.stage = "cli" =>
       /\ FitAsSpecified(probe, probe.box1, probe.r1, 20, 4, 20)
       /\ FitAsSpecified(probe, probe.box2, probe.r2, 20, 4, 20)
  /\ probe.stage = "web" =>
       /\ FitAsSpecified(probe, probe.box1, probe.r1, 10, 2, 10)
       /\ FitAsSpecified(probe, probe.box2, probe.r2, 10, 2, 10)

\* find_font_size shrank the text to a size between floor and ceiling in
\* the first box and fell back to the floor, nothing fitting, in the second.
C5_Witness ==
  /\ probe.stage = "cli"
  /\ probe.r1.size > CliFloor /\ probe.r1.size < probe.max_size
  /\ Len(probe.r1.tried) > 1
  /\ probe.r2.size = CliFloor
  /\ FittingSizes(probe, probe.box2, CliFloor, CliStep, CliPadding) = {}
  /\ Len(probe.r2.tried) > 1

(***************************************************************************)
(* C6  Fit monotonicity in the box: for the same text, ceiling and font,   *)
(* when the second box is at least as wide and as high as the first, the   *)
(* size fitted to the second box is >= the size fitted to the first.       *)
(***************************************************************************)
C6_FitMonotoneInBox ==
  (/\ probe.stage \in {"cli", "web"}
   /\ probe.box1[1] <= probe.box2[1]
   /\ probe.box1[2] <= probe.box2[2])
  => probe.r1.size <= probe.r2.size

\* get_font_for_text gave a strictly larger box a strictly larger size.
C6_Witness ==
  /\ probe.stage = "web"
  /\ probe.box1[1] < probe.box2[1]
  /\ probe.box1[2] < probe.box2[2]
  /\ probe.r1.size < probe.r2.size
  /\ probe.r1.size > WebFloor

(***************************************************************************)
(* Font resolution on its own: a specification that draws the font files   *)
(* and applies either main's resolution followed by a worker's get_font,   *)
(* or load_font of the web variant.                                        *)
(***************************************************************************)
CliFontInputs ==
  UNION {[stage : {"cli_input"}, arg : FontArgs,
          cands : [1..CandidateCount(system) -> FileStates],
          size : {CliFloor, 30}, source : {-2}, kind : {""}]
         : system \in Systems}

WebFontInputs ==
  [stage : {"web_input"}, arg : FileStates,
   cands : [1..WebFallbackPaths -> {"absent", "good"}],
   size : {WebFloor, 30}, source : {-2}, kind : {""}]

InitFont ==
  /\ NoRun
  /\ probe \in CliFontInputs \cup WebFontInputs

\* main resolves args.font, a worker is initialised with it (ceiling 30) and
\* get_font is called.
ApplyGetFont ==
  /\ probe.stage = "cli_input"
  /\ LET r == ResolveFont(probe.arg, probe.cands)
         g == get_font(init_worker(NewWorker, r.file, 30).fonts, r.file,
                       probe.size)
     IN probe' = [probe EXCEPT
                    !.stage = IF g.raised THEN "cli_raised" ELSE "cli",
                    !.source = IF g.font.kind = "truetype" THEN r.source
                               ELSE -1,
                    !.kind = g.font.kind]
  /\ UNCHANGED runVars

ApplyLoadFont ==
  /\ probe.stage = "web_input"
  /\ LET f == load_font([requested |-> probe.arg,
                         fallbacks |-> [i \in DOMAIN probe.cands |->
                                          probe.cands[i] = "good"]],
                        probe.size)
     IN probe' = [probe EXCEPT !.stage = "web", !.source = f.source,
                               !.kind = f.kind]
  /\ UNCHANGED runVars

NextFont == ApplyGetFont \/ ApplyLoadFont

SpecFont == InitFont /\ [][NextFont]_vars

RECURSIVE FirstGood(_, _)
FirstGood(cands, i) ==
  IF i > Len(cands) THEN -1
  ELSE IF cands[i] = "good" THEN i ELSE FirstGood(cands, i + 1)

SpecifiedSource(p) ==
  IF p.arg = "good" THEN 0 ELSE FirstGood(p.cands, 1)

(***************************************************************************)
(* C9  Font resolution order: the font returned comes from the configured  *)
(* file when that loads, else from the first of the platform-default paths *)
(* (in listed order) that loads, and is the built-in font only when the    *)
(* configured file and every platform-default path fail to load.           *)
(***************************************************************************)
C9_FontResolutionOrder ==
  probe.stage \in {"cli", "web"} =>
    /\ probe.source = SpecifiedSource(probe)
    /\ probe.kind = (IF probe.source = -1 THEN "default" ELSE "truetype")

=============================================================================
